---- MODULE Spec2Model ----
(***************************************************************************)
(* Model of tools/setup_workspace.py: the workspace bootstrap that         *)
(* installs MaaFramework (maafw) and MXU (mxu) from release archives and   *)
(* records their versions in install/version.json.                         *)
(*                                                                         *)
(* Text (version strings, operator input, file names) is a sequence of     *)
(* one-character strings.  Python's None is the value None below, which is *)
(* not the text of any string.                                             *)
(***************************************************************************)
EXTENDS Integers, Sequences, FiniteSets, TLC

\* ------------------------------------------------------------------------
\* Text helpers (str.strip, str.lower, str.split, str.isdigit, int)
\* ------------------------------------------------------------------------

None == <<"None">>

\* Python truthiness of an optional string: None and "" are falsy
Truthy(x) == x # None /\ x # <<>>

\* `y or x`: the operands the other way round
OrElseReversed(x, y) == IF y # <<"None">> /\ y # <<>> THEN y ELSE x

\* Python's `x or y` on optional strings
OrElse(x, y) == IF Truthy(x) THEN x ELSE y

Whitespace == {" ", "\t", "\n", "\r"}

UpperChars == <<"A","B","C","D","E","F","G","H","I","J","K","L","M",
                "N","O","P","Q","R","S","T","U","V","W","X","Y","Z">>

LowerChars == <<"a","b","c","d","e","f","g","h","i","j","k","l","m",
                "n","o","p","q","r","s","t","u","v","w","x","y","z">>

Digits == <<"0","1","2","3","4","5","6","7","8","9">>

lowerChar(ch) ==
    IF \E i \in 1..Len(UpperChars) : UpperChars[i] = ch
    THEN LowerChars[CHOOSE i \in 1..Len(UpperChars) : UpperChars[i] = ch]
    ELSE ch

lower(s) == [i \in 1..Len(s) |-> lowerChar(s[i])]

RECURSIVE lstrip(_)
lstrip(s) == IF s # <<>> /\ Head(s) \in Whitespace THEN lstrip(Tail(s)) ELSE s

RECURSIVE rstrip(_)
rstrip(s) ==
    IF s # <<>> /\ s[Len(s)] \in Whitespace
    THEN rstrip(SubSeq(s, 1, Len(s) - 1))
    ELSE s

strip(s) == rstrip(lstrip(s))

\* U+00B2 SUPERSCRIPT TWO, one character: str.isdigit() is true of it (its
\* Unicode property is Numeric_Type=Digit) and int() raises ValueError on it
SuperscriptTwo == "^2"

isdigit(ch) == ch = SuperscriptTwo \/ \E i \in 1..Len(Digits) : Digits[i] = ch

digitValue(ch) == (CHOOSE i \in 1..Len(Digits) : Digits[i] = ch) - 1

\* int(num) raises ValueError: num is not a decimal literal
int_raises(num) == \E i \in 1..Len(num) : num[i] = SuperscriptTwo

\* int(num) for a non-empty run of decimal digits
RECURSIVE int(_)
int(num) ==
    IF num = <<>> THEN 0
    ELSE int(SubSeq(num, 1, Len(num) - 1)) * 10 + digitValue(num[Len(num)])

\* position of the first occurrence of ch in s, 0 when there is none
find(s, ch) ==
    IF \E i \in 1..Len(s) : s[i] = ch
    THEN CHOOSE i \in 1..Len(s) : s[i] = ch /\ \A j \in 1..(i - 1) : s[j] # ch
    ELSE 0

\* s.split(sep) for a one-character separator
RECURSIVE split(_, _)
split(s, sep) ==
    LET i == find(s, sep)
    IN  IF i = 0 THEN <<s>>
        ELSE <<SubSeq(s, 1, i - 1)>> \o split(SubSeq(s, i + 1, Len(s)), sep)

\* ------------------------------------------------------------------------
\* VersionComparator
\* ------------------------------------------------------------------------

\* the inner loop of parse_semver: the leading run of digits of one segment
RECURSIVE leadingDigits(_)
leadingDigits(part) ==
    IF part # <<>> /\ isdigit(Head(part))
    THEN <<Head(part)>> \o leadingDigits(Tail(part))
    ELSE <<>>

\* what a call that raised ValueError is shown as: no list of components
ValueError == <<-1>>

parse_semver(version) ==
    IF version = <<>> THEN <<>>
    ELSE
      LET v0 == strip(version)
          v1 == IF v0 # <<>> /\ Head(v0) \in {"v", "V"} THEN Tail(v0) ELSE v0
          v2 == IF find(v1, "-") # 0 THEN SubSeq(v1, 1, find(v1, "-") - 1) ELSE v1
          parts == split(v2, ".")
      IN  IF \E i \in 1..Len(parts) : int_raises(leadingDigits(parts[i]))
          THEN ValueError
          ELSE [i \in 1..Len(parts) |->
                  LET num == leadingDigits(parts[i])
                  IN  IF num = <<>> THEN 0 ELSE int(num)]

\* the shorter length taken for the longer
Min(x, y) == IF x >= y THEN y ELSE x

Max(x, y) == IF x >= y THEN x ELSE y

\* left += [0] * (max_len - len(left))
padZeros(xs, n) == [i \in 1..n |-> IF i <= Len(xs) THEN xs[i] ELSE 0]

\* what compare_semver is shown to return when parse_semver raised in it
Raised == -2

compare_semver(a, b) ==
    IF ~Truthy(a) /\ ~Truthy(b) THEN 0
    ELSE IF Truthy(a) /\ ~Truthy(b) THEN 1
    ELSE IF Truthy(b) /\ ~Truthy(a) THEN -1
    ELSE IF parse_semver(a) = ValueError \/ parse_semver(b) = ValueError THEN Raised
    ELSE
      LET max_len == Max(Len(parse_semver(a)), Len(parse_semver(b)))
          left  == padZeros(parse_semver(a), max_len)
          right == padZeros(parse_semver(b), max_len)
          diff  == {i \in 1..max_len : left[i] # right[i]}
      IN  IF diff = {} THEN 0
          ELSE LET k == CHOOSE i \in diff : \A j \in diff : i <= j
               IN  IF left[k] > right[k] THEN 1 ELSE -1

\* ------------------------------------------------------------------------
\* Bounds and input sets
\* ------------------------------------------------------------------------

\* how many times the environment may keep the destination locked in one
\* install (the retry loop itself has no cap)
MaxLocked == 2

Txt_1_2_0  == <<"1", ".", "2", ".", "0">>
Txt_1_10_0 == <<"1", ".", "1", "0", ".", "0">>
Txt_v1_9_9 == <<"v", "1", ".", "9", ".", "9">>
Txt_0_1    == <<"0", ".", "1">>

\* tag names the release feed may report (None: the tag has no name); the
\* versions of a bootstrap run are written with the digits 0-9
RemoteTags == {None, Txt_1_2_0, Txt_v1_9_9}

\* lines the operator may type at the retry prompt
OperatorInputs == {<<>>, <<"q">>, <<" ", "Q", "\t">>, <<"y">>, <<"q", "q">>}

\* ------------------------------------------------------------------------
\* Program constants
\* ------------------------------------------------------------------------

OSKeywords == {"win", "linux", "macos"}

\* the platforms the model runs on (macos takes the same branches as linux)
ModelledOS == {"win", "linux"}

Components == {"maafw", "mxu"}

LedgerKeys == {"maafw", "mxu", "other"}

MFW_DIST_NAME(os) ==
    CASE os = "win"   -> "MaaFramework.dll"
      [] os = "linux" -> "libMaaFramework.so"
      [] OTHER        -> "libMaaFramework.dylib"

Name_mxu     == <<"m", "x", "u">>
Name_mxu_exe == <<"m", "x", "u", ".", "e", "x", "e">>
Name_mxu_pdb == <<"m", "x", "u", ".", "p", "d", "b">>

MXU_DIST_NAME(os) == IF os = "win" THEN Name_mxu_exe ELSE Name_mxu

\* ------------------------------------------------------------------------
\* Files the model distinguishes
\* ------------------------------------------------------------------------

\* a second entry of the maafw directory and of the archive's bin directory
Name_toolkit == "MaaToolkit"

MfwNames(os) == {MFW_DIST_NAME(os), Name_toolkit}

\* the primary artifact spelled in another case, and an unrelated entry
Name_MXU     == <<"M", "X", "U">>
Name_MXU_exe == <<"M", "X", "U", ".", "e", "x", "e">>
Name_readme  == <<"R", "E", "A", "D", "M", "E">>

MxuVariant(os) == IF os = "win" THEN Name_MXU_exe ELSE Name_MXU

RootNames == {Name_mxu, Name_mxu_exe, Name_mxu_pdb, Name_MXU, Name_MXU_exe, Name_readme}

\* content of a file: absent, of the previous installation, of the new payload
Content == {"none", "old", "new"}

\* a downloaded archive: unreadable, or a tree with (maafw) a bin directory
\* holding `items`, or (mxu) top-level entries `items`
NoArchive == [corrupt |-> FALSE, bin |-> FALSE, items |-> {}]

MaafwArchives(os) ==
    { [corrupt |-> TRUE,  bin |-> FALSE, items |-> {}],
      [corrupt |-> FALSE, bin |-> FALSE, items |-> {}],
      [corrupt |-> FALSE, bin |-> TRUE,  items |-> {MFW_DIST_NAME(os), Name_toolkit}],
      [corrupt |-> FALSE, bin |-> TRUE,  items |-> {Name_toolkit}] }

MxuArchives(os) ==
    { [corrupt |-> TRUE,  bin |-> FALSE, items |-> {}],
      [corrupt |-> FALSE, bin |-> FALSE, items |-> {MXU_DIST_NAME(os), Name_mxu_pdb}],
      [corrupt |-> FALSE, bin |-> FALSE, items |-> {MxuVariant(os), Name_readme}],
      [corrupt |-> FALSE, bin |-> FALSE, items |-> {Name_mxu_pdb}] }

\* ------------------------------------------------------------------------
\* State
\* ------------------------------------------------------------------------

VARIABLES
    args,            \* parsed command line: [update, ci]
    OS_KEYWORD,      \* platform keyword, fixed at import time
    version_file,    \* install/version.json: [exists, wellformed, versions]
    maafw_dest,      \* install/maafw: [exists, files]
    root_files,      \* entries of install/ that install_mxu reads or writes
    tmp_dir,         \* the TemporaryDirectory of the running install
    pc,              \* position of main
    local_versions,  \* main's local_versions
    versions,        \* main's versions
    any_downloaded,  \* main's any_downloaded
    frame,           \* locals of the running install call
    exit_code,       \* process exit status, -1 while running
    obs,             \* history of observable events (feed queries, prompts, ...)
    fcall            \* a call of one function taken on its own: arguments, result

vars == <<args, OS_KEYWORD, version_file, maafw_dest, root_files, tmp_dir, pc,
          local_versions, versions, any_downloaded, frame, exit_code, obs, fcall>>

\* the variables of the bootstrap run
program_vars == <<args, OS_KEYWORD, version_file, maafw_dest, root_files, tmp_dir, pc,
                  local_versions, versions, any_downloaded, frame, exit_code, obs>>

\* no function is being looked at on its own
NoCall == [fn |-> "none"]

EmptyDict == [k \in LedgerKeys |-> None]

NoFiles(os) == [n \in MfwNames(os) |-> "none"]

NoTmp == [exists |-> FALSE, archive |-> NoArchive, extracted |-> FALSE]

NoFrame ==
    [fn |-> "none", at |-> "none", skip_if_exist |-> FALSE, update_mode |-> FALSE,
     installed |-> FALSE, local_version |-> None, remote_version |-> None,
     pending |-> {}, copied |-> FALSE,
     ret |-> [ok |-> FALSE, version |-> None, downloaded |-> FALSE]]

\* events of the running install call, cleared when main takes its result
ZeroObs ==
    [called    |-> [c \in Components |-> FALSE],
     queries   |-> 0,
     downloads |-> 0,
     attempts  |-> 0,
     locked    |-> 0,
     prompts   |-> 0,
     last_rm   |-> "none",
     last_cmd  |-> None,     \* the line typed at the latest prompt
     extracts  |-> 0,
     copies    |-> 0,
     payload   |-> {},       \* the entries the downloaded archive offers
     resolved  |-> FALSE,    \* the feed query returned an asset
     path      |-> "none",   \* the return statement the install left by
     rets      |-> [c \in Components |->
                       [returned |-> FALSE, ok |-> FALSE, version |-> None,
                        downloaded |-> FALSE]],
     writes    |-> 0,
     written   |-> EmptyDict,
     file0     |-> [exists |-> FALSE, wellformed |-> FALSE, versions |-> <<>>],
     dest0     |-> [exists |-> FALSE, files |-> <<>>],
     root0     |-> <<>>]

ClearCallEvents(o) ==
    [o EXCEPT !.queries = 0, !.downloads = 0, !.attempts = 0, !.locked = 0,
              !.prompts = 0, !.last_rm = "none", !.last_cmd = None,
              !.extracts = 0, !.copies = 0, !.payload = {},
              !.resolved = FALSE, !.path = "none"]

\* ------------------------------------------------------------------------
\* VersionLedger
\* ------------------------------------------------------------------------

\* A dict of versions is a function on LedgerKeys, None for a key it does not
\* hold.  The file holds the members of the JSON object "versions", each a
\* <<key, value>> pair, in the order json.dump wrote them.

\* the order in which a dict's keys are dumped
KeyOrder == <<"maafw", "mxu", "other">>

\* a lone surrogate such as U+D800, one character: json.loads yields it from
\* an escape, and the utf-8 codec cannot encode it
Surrogate == "\\uD800"

\* every string of the dict can be written to a utf-8 file
encodable(vs) ==
    \A k \in LedgerKeys :
        vs[k] # None => \A i \in 1..Len(vs[k]) : vs[k][i] # Surrogate

\* json.dump of the dict: one member for each key it holds
RECURSIVE dump_from(_, _)
dump_from(vs, i) ==
    IF i > Len(KeyOrder) THEN <<>>
    ELSE (IF vs[KeyOrder[i]] # None THEN << <<KeyOrder[i], vs[KeyOrder[i]]>> >> ELSE <<>>)
         \o dump_from(vs, i + 1)

json_dump(vs) == dump_from(vs, 1)

\* {str(k): str(v) for k, v in versions.items()} on the loaded object: the
\* last member of a key is the one json.load keeps
json_load(members) ==
    [k \in LedgerKeys |->
        LET at == {i \in 1..Len(members) : members[i][1] = k}
        IN  IF at = {} THEN None
            ELSE members[CHOOSE i \in at : \A j \in at : j <= i][2]]

read_versions_file(file) ==
    IF ~file.exists THEN EmptyDict
    ELSE IF file.wellformed THEN json_load(file.versions)
    ELSE EmptyDict

\* a write that keeps what the file held and adds the new members after it
write_versions_appended(file, vs) ==
    [exists |-> TRUE, wellformed |-> TRUE,
     versions |-> (IF file.exists /\ file.wellformed THEN file.versions ELSE <<>>)
                  \o json_dump(vs)]

\* the file after a write that raised nothing
write_versions_file(file, vs) ==
    [exists |-> TRUE, wellformed |-> TRUE, versions |-> json_dump(vs)]

\* the files a write that raised may leave: untouched (mkdir or open failed)
\* or cut short (json.dump failed after open(path, "w"))
write_versions_failed(file) ==
    {file, [exists |-> TRUE, wellformed |-> FALSE, versions |-> <<>>]}

\* ------------------------------------------------------------------------
\* Initial states
\* ------------------------------------------------------------------------

Ledger(maafw, mxu, other) ==
    [k \in LedgerKeys |-> CASE k = "maafw" -> maafw [] k = "mxu" -> mxu [] OTHER -> other]

\* version.json at startup: missing, unparsable, or one of a few mappings
InitialVersionFiles ==
    {[exists |-> FALSE, wellformed |-> FALSE, versions |-> <<>>],
     [exists |-> TRUE,  wellformed |-> FALSE, versions |-> <<>>]}
    \cup
    {[exists |-> TRUE, wellformed |-> TRUE, versions |-> json_dump(d)] :
        d \in {Ledger(Txt_1_2_0, Txt_1_2_0, Txt_0_1),
               Ledger(Txt_1_10_0, None, Txt_0_1),
               Ledger(<<>>, Txt_1_10_0, None),
               Ledger(None, <<>>, None)}}

InitialMaafwDest(os) ==
    {[exists |-> FALSE, files |-> NoFiles(os)],
     [exists |-> TRUE,  files |-> [n \in MfwNames(os) |-> "old"]],
     [exists |-> TRUE,  files |-> [n \in MfwNames(os) |->
                                     IF n = Name_toolkit THEN "old" ELSE "none"]]}

InitialRootFiles(os) ==
    {[n \in RootNames |-> "none"],
     [n \in RootNames |-> IF n = MXU_DIST_NAME(os) THEN "old" ELSE "none"],
     [n \in RootNames |-> IF n \in {MXU_DIST_NAME(os), Name_mxu_pdb} THEN "old" ELSE "none"]}

Init ==
    /\ args \in [update : BOOLEAN, ci : BOOLEAN]
    /\ OS_KEYWORD \in ModelledOS
    /\ version_file \in InitialVersionFiles
    /\ maafw_dest \in InitialMaafwDest(OS_KEYWORD)
    /\ root_files \in InitialRootFiles(OS_KEYWORD)
    /\ tmp_dir = NoTmp
    /\ pc = "start"
    /\ local_versions = EmptyDict
    /\ versions = EmptyDict
    /\ any_downloaded = FALSE
    /\ frame = NoFrame
    /\ exit_code = -1
    /\ obs = [ZeroObs EXCEPT !.file0 = version_file, !.dest0 = maafw_dest,
                              !.root0 = root_files]
    /\ fcall = NoCall

\* ------------------------------------------------------------------------
\* main, up to the first install
\* ------------------------------------------------------------------------

Exit(code) == pc' = "exit" /\ exit_code' = code

main_start ==
    /\ pc = "start"
    /\ local_versions' = read_versions_file(version_file)
    /\ pc' = "submodules"
    /\ UNCHANGED <<args, OS_KEYWORD, version_file, maafw_dest, root_files, tmp_dir,
                   versions, any_downloaded, frame, exit_code, obs>>
    /\ UNCHANGED fcall

\* update_submodules(skip_if_exist = not args.update): the LICENSE file of the
\* submodule and the result of the git command are the environment's
update_submodules(skip_if_exist, license_exists, command_ok) ==
    IF ~skip_if_exist \/ ~license_exists THEN command_ok ELSE TRUE

main_update_submodules ==
    /\ pc = "submodules"
    /\ \E license_exists \in BOOLEAN, command_ok \in BOOLEAN :
          IF ~update_submodules(~args.update, license_exists, command_ok)
          THEN Exit(1)
          ELSE pc' = "build" /\ UNCHANGED exit_code
    /\ UNCHANGED <<args, OS_KEYWORD, version_file, maafw_dest, root_files, tmp_dir,
                   local_versions, versions, any_downloaded, frame, obs>>
    /\ UNCHANGED fcall

main_run_build_script ==
    /\ pc = "build"
    /\ \E command_ok \in BOOLEAN :
          IF ~command_ok
          THEN Exit(1) /\ UNCHANGED <<versions, any_downloaded>>
          ELSE /\ versions' = local_versions
               /\ any_downloaded' = FALSE
               /\ pc' = "call_maafw"
               /\ UNCHANGED exit_code
    /\ UNCHANGED <<args, OS_KEYWORD, version_file, maafw_dest, root_files, tmp_dir,
                   local_versions, frame, obs>>
    /\ UNCHANGED fcall

\* ------------------------------------------------------------------------
\* Helpers shared by install_maafw and install_mxu
\* ------------------------------------------------------------------------

\* the call made by main: skip_if_exist = not args.update,
\* update_mode = args.update, local_version = local_versions.get(component)
CallFrame(fn, update, local_version) ==
    [NoFrame EXCEPT !.fn = fn, !.at = "begin", !.skip_if_exist = ~update,
                    !.update_mode = update, !.local_version = local_version]

\* `return ok, version, downloaded`
Return(f, ok, version, downloaded) ==
    [f EXCEPT !.at = "ret",
              !.ret = [ok |-> ok, version |-> version, downloaded |-> downloaded]]

\* which return statement the running install left by
ObsExit(o, path) == [o EXCEPT !.path = path]

\* what main received from an install
ObsResult(o, c, ret) ==
    [o EXCEPT !.rets[c] = [returned |-> TRUE, ok |-> ret.ok, version |-> ret.version,
                           downloaded |-> ret.downloaded]]

\* a main that drops the version an install returned
record_version_dropped(vs, c, version) == vs

\* a main that builds the mapping from the versions of the components alone
record_version_alone(vs, c, version) ==
    IF Truthy(version)
    THEN [k \in DOMAIN vs |-> IF k = c THEN version
                              ELSE IF k \in Components THEN vs[k] ELSE None]
    ELSE vs

\* `if maafw_version: versions["maafw"] = maafw_version`, and the same for mxu
record_version(vs, c, version) ==
    IF Truthy(version) THEN [vs EXCEPT ![c] = version] ELSE vs

\* a skip that also wants the ledger to know the component
should_skip_if_recorded(skip_if_exist, installed) ==
    skip_if_exist /\ installed /\ Truthy(frame.local_version)

\* `if skip_if_exist and maafw_installed`, and the same for mxu
should_skip(skip_if_exist, installed) == skip_if_exist /\ installed

\* one handler for every OSError, so that any failure prompts
removal_handler_any_oserror(outcome) ==
    CASE outcome \in {"locked", "error"} -> "PermissionError"
      [] OTHER                           -> "break"

\* the except clause one removal attempt ends in
removal_handler(outcome) ==
    CASE outcome = "locked" -> "PermissionError"
      [] outcome = "error"  -> "Exception"
      [] OTHER              -> "break"

\* a temporary directory made with mkdtemp and never removed
TemporaryDirectory_kept(t) == t

\* leaving the `with tempfile.TemporaryDirectory()` block
TemporaryDirectory_cleanup(t) == NoTmp

\* what get_latest_release_url may hand back: (None, None, None), or the url
\* and name of an asset with its tag's name
Txt_url      == <<"u", "r", "l">>
Txt_filename == <<"a", ".", "z", "i", "p">>

ReleaseOutcomes ==
    {[url |-> None, filename |-> None, tag_name |-> None]}
    \cup {[url |-> Txt_url, filename |-> Txt_filename, tag_name |-> t] : t \in RemoteTags}

\* a short-circuit that wants the local version strictly newer
is_up_to_date_strict(update_mode, installed, local_version, remote_version) ==
    /\ update_mode
    /\ installed
    /\ Truthy(local_version)
    /\ Truthy(remote_version)
    /\ compare_semver(local_version, remote_version) > 0

\* the update short-circuit condition
is_up_to_date(update_mode, installed, local_version, remote_version) ==
    /\ update_mode
    /\ installed
    /\ Truthy(local_version)
    /\ Truthy(remote_version)
    /\ compare_semver(local_version, remote_version) >= 0

\* a cancel test that forgets .lower()
is_cancel_case_sensitive(line) == strip(line) = <<"q">>

\* a cancel test with a cap of two retries
is_cancel_or_capped(line) == lower(strip(line)) = <<"q">> \/ obs.locked >= 2

\* cmd = input(...).strip().lower(); cmd == "q"
is_cancel(line) == lower(strip(line)) = <<"q">>

\* results of one removal attempt: done, PermissionError, any other exception
RemovalOutcomes == {"ok", "locked", "error"}

\* what main holds while an install function runs
main_state == <<args, OS_KEYWORD, version_file, pc, local_versions, versions,
                any_downloaded, exit_code>>

\* ------------------------------------------------------------------------
\* install_maafw
\* ------------------------------------------------------------------------

main_call_install_maafw ==
    /\ pc = "call_maafw"
    /\ pc' = "in_maafw"
    /\ frame' = CallFrame("maafw", args.update, local_versions["maafw"])
    /\ obs' = [obs EXCEPT !.called["maafw"] = TRUE]
    /\ UNCHANGED <<args, OS_KEYWORD, version_file, maafw_dest, root_files, tmp_dir,
                   local_versions, versions, any_downloaded, exit_code>>
    /\ UNCHANGED fcall

\* (maafw_dest / MFW_DIST_NAME).exists()
maafw_installed(dest, os) == dest.exists /\ dest.files[MFW_DIST_NAME(os)] # "none"

install_maafw_begin ==
    /\ frame.fn = "maafw" /\ frame.at = "begin"
    /\ LET installed == maafw_installed(maafw_dest, OS_KEYWORD)
           f == [frame EXCEPT !.installed = installed]
       IN  IF should_skip(f.skip_if_exist, installed)
           THEN /\ frame' = Return(f, TRUE, f.local_version, FALSE)
                /\ obs' = ObsExit(obs, "skip")
           ELSE /\ frame' = [f EXCEPT !.at = "resolve"]
                /\ obs' = obs
    /\ UNCHANGED <<main_state, maafw_dest, root_files, tmp_dir>>
    /\ UNCHANGED fcall

install_maafw_resolve ==
    /\ frame.fn = "maafw" /\ frame.at = "resolve"
    /\ \E r \in ReleaseOutcomes :
          LET o == [obs EXCEPT !.queries = @ + 1,
                               !.resolved = Truthy(r.url) /\ Truthy(r.filename)]
          IN  IF ~Truthy(r.url) \/ ~Truthy(r.filename)
              THEN /\ frame' = Return(frame, FALSE, frame.local_version, FALSE)
                   /\ obs' = ObsExit(o, "notfound")
              ELSE IF is_up_to_date(frame.update_mode, frame.installed,
                                    frame.local_version, r.tag_name)
              THEN /\ frame' = Return([frame EXCEPT !.remote_version = r.tag_name],
                                      TRUE, frame.local_version, FALSE)
                   /\ obs' = ObsExit(o, "uptodate")
              ELSE /\ frame' = [frame EXCEPT !.remote_version = r.tag_name,
                                             !.at = "download"]
                   /\ obs' = o
    /\ UNCHANGED <<main_state, maafw_dest, root_files, tmp_dir>>
    /\ UNCHANGED fcall

\* the with block is entered, download_file runs, and maafw_dest.exists()
\* decides whether the removal loop is entered
\* an install that removes the previous directory before it downloads
install_maafw_download_after_removal ==
    /\ frame.fn = "maafw" /\ frame.at = "download"
    /\ \E download_ok \in BOOLEAN, a \in MaafwArchives(OS_KEYWORD) :
          LET o == [obs EXCEPT !.downloads = @ + 1]
              t == [exists |-> TRUE, archive |-> a, extracted |-> FALSE]
          IN  IF ~download_ok
              THEN /\ frame' = Return(frame, FALSE, frame.local_version, FALSE)
                   /\ obs' = ObsExit(o, "download")
                   /\ tmp_dir' = TemporaryDirectory_cleanup(t)
              ELSE /\ frame' = [frame EXCEPT !.at = "extract"]
                   /\ obs' = [o EXCEPT !.payload = a.items]
                   /\ tmp_dir' = t
    /\ maafw_dest' = [exists |-> FALSE, files |-> NoFiles(OS_KEYWORD)]
    /\ UNCHANGED <<main_state, root_files>>
    /\ UNCHANGED fcall

install_maafw_download ==
    /\ frame.fn = "maafw" /\ frame.at = "download"
    /\ \E download_ok \in BOOLEAN, a \in MaafwArchives(OS_KEYWORD) :
          LET o == [obs EXCEPT !.downloads = @ + 1]
              t == [exists |-> TRUE, archive |-> a, extracted |-> FALSE]
          IN  IF ~download_ok
              THEN /\ frame' = Return(frame, FALSE, frame.local_version, FALSE)
                   /\ obs' = ObsExit(o, "download")
                   /\ tmp_dir' = TemporaryDirectory_cleanup(t)
              ELSE /\ frame' = [frame EXCEPT !.at = IF maafw_dest.exists
                                                    THEN "remove" ELSE "extract"]
                   /\ obs' = [o EXCEPT !.payload = a.items]
                   /\ tmp_dir' = t
    /\ UNCHANGED <<main_state, maafw_dest, root_files>>
    /\ UNCHANGED fcall

\* what shutil.rmtree may leave when it raises: the directory, with any of
\* its entries already deleted
rmtree_failed(dest) ==
    {[exists |-> TRUE, files |-> g] :
        g \in {h \in [DOMAIN dest.files -> Content] :
                  \A n \in DOMAIN dest.files : h[n] \in {dest.files[n], "none"}}}

\* a removal that reports success but leaves the directory's entries
rmtree_keeps_entries(dest) == dest

rmtree_done(dest) == [exists |-> FALSE, files |-> [n \in DOMAIN dest.files |-> "none"]]

\* one pass of the `while True` body up to the except clauses
install_maafw_remove ==
    /\ frame.fn = "maafw" /\ frame.at = "remove"
    /\ \E outcome \in RemovalOutcomes :
          LET o == [obs EXCEPT !.attempts = @ + 1,
                               !.last_rm = outcome,
                               !.last_cmd = None,
                               !.locked = IF outcome = "locked" THEN @ + 1 ELSE @]
          IN  CASE removal_handler(outcome) = "break" ->
                     /\ maafw_dest' = rmtree_done(maafw_dest)
                     /\ frame' = [frame EXCEPT !.at = "extract"]
                     /\ obs' = o
                     /\ tmp_dir' = tmp_dir
                [] removal_handler(outcome) = "PermissionError" ->
                     /\ obs.locked < MaxLocked
                     /\ maafw_dest' \in rmtree_failed(maafw_dest)
                     /\ frame' = [frame EXCEPT !.at = "prompt"]
                     /\ obs' = o
                     /\ tmp_dir' = tmp_dir
                [] removal_handler(outcome) = "Exception" ->
                     /\ maafw_dest' \in rmtree_failed(maafw_dest)
                     /\ frame' = Return(frame, FALSE, frame.local_version, FALSE)
                     /\ obs' = ObsExit(o, "rm_error")
                     /\ tmp_dir' = TemporaryDirectory_cleanup(tmp_dir)
    /\ UNCHANGED <<main_state, root_files>>
    /\ UNCHANGED fcall

\* the PermissionError handler: one input() and the test of its answer
install_maafw_prompt ==
    /\ frame.fn = "maafw" /\ frame.at = "prompt"
    /\ \E line \in OperatorInputs :
          LET o == [obs EXCEPT !.prompts = @ + 1,
                               !.last_cmd = line]
          IN  IF is_cancel(line)
              THEN /\ frame' = Return(frame, FALSE, frame.local_version, FALSE)
                   /\ obs' = ObsExit(o, "abort")
                   /\ tmp_dir' = TemporaryDirectory_cleanup(tmp_dir)
              ELSE /\ frame' = [frame EXCEPT !.at = "remove"]
                   /\ obs' = o
                   /\ tmp_dir' = tmp_dir
    /\ UNCHANGED <<main_state, maafw_dest, root_files>>
    /\ UNCHANGED fcall

\* unpack_archive, maafw_dest.mkdir, and the os.walk that looks for bin
install_maafw_extract ==
    /\ frame.fn = "maafw" /\ frame.at = "extract"
    /\ LET o == [obs EXCEPT !.extracts = @ + 1]
           a == tmp_dir.archive
       IN  IF a.corrupt
           THEN /\ frame' = Return(frame, FALSE, frame.local_version, FALSE)
                /\ obs' = ObsExit(o, "unpack")
                /\ tmp_dir' = TemporaryDirectory_cleanup(tmp_dir)
                /\ maafw_dest' = maafw_dest
           ELSE IF ~a.bin
           THEN /\ frame' = Return(frame, FALSE, frame.local_version, FALSE)
                /\ obs' = ObsExit(o, "payload")
                /\ tmp_dir' = TemporaryDirectory_cleanup(tmp_dir)
                /\ maafw_dest' = [maafw_dest EXCEPT !.exists = TRUE]
           ELSE /\ frame' = [frame EXCEPT !.at = "copy", !.pending = a.items]
                /\ obs' = o
                /\ tmp_dir' = [tmp_dir EXCEPT !.extracted = TRUE]
                /\ maafw_dest' = [maafw_dest EXCEPT !.exists = TRUE]
    /\ UNCHANGED <<main_state, root_files>>
    /\ UNCHANGED fcall

\* one iteration of `for item in bin_path.iterdir()`; copytree or copy2 may raise
install_maafw_copy ==
    /\ frame.fn = "maafw" /\ frame.at = "copy" /\ frame.pending # {}
    /\ \E item \in frame.pending, copy_ok \in BOOLEAN :
          LET o == [obs EXCEPT !.copies = @ + 1]
          IN  IF ~copy_ok
              THEN /\ frame' = Return(frame, FALSE, frame.local_version, FALSE)
                   /\ obs' = ObsExit(o, "copy")
                   /\ tmp_dir' = TemporaryDirectory_cleanup(tmp_dir)
                   /\ maafw_dest' = maafw_dest
              ELSE /\ frame' = [frame EXCEPT !.pending = @ \ {item}]
                   /\ obs' = o
                   /\ tmp_dir' = tmp_dir
                   /\ maafw_dest' = [maafw_dest EXCEPT !.files[item] = "new"]
    /\ UNCHANGED <<main_state, root_files>>
    /\ UNCHANGED fcall

\* bin_found = True; break; return True, remote_version or local_version, True
install_maafw_done ==
    /\ frame.fn = "maafw" /\ frame.at = "copy" /\ frame.pending = {}
    /\ LET v == OrElse(frame.remote_version, frame.local_version)
       IN  /\ frame' = Return(frame, TRUE, v, TRUE)
           /\ obs' = ObsExit(obs, "success")
    /\ tmp_dir' = TemporaryDirectory_cleanup(tmp_dir)
    /\ UNCHANGED <<main_state, maafw_dest, root_files>>
    /\ UNCHANGED fcall

\* a main that logs the failure of maafw and goes on to mxu
main_after_maafw_best_effort ==
    /\ pc = "in_maafw" /\ frame.fn = "maafw" /\ frame.at = "ret"
    /\ versions' = IF frame.ret.ok
                   THEN record_version(versions, "maafw", frame.ret.version)
                   ELSE versions
    /\ any_downloaded' = (any_downloaded \/ frame.ret.downloaded)
    /\ pc' = "call_mxu"
    /\ frame' = NoFrame
    /\ obs' = ObsResult(ClearCallEvents(obs), frame.fn, frame.ret)
    /\ UNCHANGED <<args, OS_KEYWORD, version_file, maafw_dest, root_files, tmp_dir,
                   local_versions, exit_code>>
    /\ UNCHANGED fcall

main_after_maafw ==
    /\ pc = "in_maafw" /\ frame.fn = "maafw" /\ frame.at = "ret"
    /\ IF ~frame.ret.ok
       THEN Exit(1) /\ UNCHANGED <<versions, any_downloaded>>
       ELSE /\ versions' = record_version(versions, "maafw", frame.ret.version)
            /\ any_downloaded' = (any_downloaded \/ frame.ret.downloaded)
            /\ pc' = "call_mxu"
            /\ UNCHANGED exit_code
    /\ frame' = NoFrame
    /\ obs' = ObsResult(ClearCallEvents(obs), frame.fn, frame.ret)
    /\ UNCHANGED <<args, OS_KEYWORD, version_file, maafw_dest, root_files, tmp_dir,
                   local_versions>>
    /\ UNCHANGED fcall

\* ------------------------------------------------------------------------
\* install_mxu
\* ------------------------------------------------------------------------

main_call_install_mxu ==
    /\ pc = "call_mxu"
    /\ pc' = "in_mxu"
    /\ frame' = CallFrame("mxu", args.update, local_versions["mxu"])
    /\ obs' = [obs EXCEPT !.called["mxu"] = TRUE]
    /\ UNCHANGED <<args, OS_KEYWORD, version_file, maafw_dest, root_files, tmp_dir,
                   local_versions, versions, any_downloaded, exit_code>>
    /\ UNCHANGED fcall

\* mxu_path.exists()
mxu_installed(root, os) == root[MXU_DIST_NAME(os)] # "none"

install_mxu_begin ==
    /\ frame.fn = "mxu" /\ frame.at = "begin"
    /\ LET installed == mxu_installed(root_files, OS_KEYWORD)
           f == [frame EXCEPT !.installed = installed]
       IN  IF should_skip(f.skip_if_exist, installed)
           THEN /\ frame' = Return(f, TRUE, f.local_version, FALSE)
                /\ obs' = ObsExit(obs, "skip")
           ELSE /\ frame' = [f EXCEPT !.at = "resolve"]
                /\ obs' = obs
    /\ UNCHANGED <<main_state, maafw_dest, root_files, tmp_dir>>
    /\ UNCHANGED fcall

install_mxu_resolve ==
    /\ frame.fn = "mxu" /\ frame.at = "resolve"
    /\ \E r \in ReleaseOutcomes :
          LET o == [obs EXCEPT !.queries = @ + 1,
                               !.resolved = Truthy(r.url) /\ Truthy(r.filename)]
          IN  IF ~Truthy(r.url) \/ ~Truthy(r.filename)
              THEN /\ frame' = Return(frame, FALSE, frame.local_version, FALSE)
                   /\ obs' = ObsExit(o, "notfound")
              ELSE IF is_up_to_date(frame.update_mode, frame.installed,
                                    frame.local_version, r.tag_name)
              THEN /\ frame' = Return([frame EXCEPT !.remote_version = r.tag_name],
                                      TRUE, frame.local_version, FALSE)
                   /\ obs' = ObsExit(o, "uptodate")
              ELSE /\ frame' = [frame EXCEPT !.remote_version = r.tag_name,
                                             !.at = "download"]
                   /\ obs' = o
    /\ UNCHANGED <<main_state, maafw_dest, root_files, tmp_dir>>
    /\ UNCHANGED fcall

target_files(os) ==
    {MXU_DIST_NAME(os)} \cup (IF os = "win" THEN {Name_mxu_pdb} ELSE {})

\* item.name.lower() in [f.lower() for f in target_files]
is_target(name, os) == lower(name) \in {lower(f) : f \in target_files(os)}

\* item.name.lower() == MXU_DIST_NAME.lower()
is_primary(name, os) == lower(name) = lower(MXU_DIST_NAME(os))

install_mxu_download ==
    /\ frame.fn = "mxu" /\ frame.at = "download"
    /\ \E download_ok \in BOOLEAN, a \in MxuArchives(OS_KEYWORD) :
          LET o == [obs EXCEPT !.downloads = @ + 1]
              t == [exists |-> TRUE, archive |-> a, extracted |-> FALSE]
          IN  IF ~download_ok
              THEN /\ frame' = Return(frame, FALSE, frame.local_version, FALSE)
                   /\ obs' = ObsExit(o, "download")
                   /\ tmp_dir' = TemporaryDirectory_cleanup(t)
              ELSE /\ frame' = [frame EXCEPT
                                  !.at = IF mxu_installed(root_files, OS_KEYWORD)
                                         THEN "remove" ELSE "extract"]
                   /\ obs' = [o EXCEPT !.payload =
                                 {i \in a.items : is_target(i, OS_KEYWORD)}]
                   /\ tmp_dir' = t
    /\ UNCHANGED <<main_state, maafw_dest, root_files>>
    /\ UNCHANGED fcall

\* mxu_path.unlink() removes the one file or raises and leaves it
unlink_done(root, os) == [root EXCEPT ![MXU_DIST_NAME(os)] = "none"]

install_mxu_remove ==
    /\ frame.fn = "mxu" /\ frame.at = "remove"
    /\ \E outcome \in RemovalOutcomes :
          LET o == [obs EXCEPT !.attempts = @ + 1,
                               !.last_rm = outcome,
                               !.last_cmd = None,
                               !.locked = IF outcome = "locked" THEN @ + 1 ELSE @]
          IN  CASE removal_handler(outcome) = "break" ->
                     /\ root_files' = unlink_done(root_files, OS_KEYWORD)
                     /\ frame' = [frame EXCEPT !.at = "extract"]
                     /\ obs' = o
                     /\ tmp_dir' = tmp_dir
                [] removal_handler(outcome) = "PermissionError" ->
                     /\ obs.locked < MaxLocked
                     /\ root_files' = root_files
                     /\ frame' = [frame EXCEPT !.at = "prompt"]
                     /\ obs' = o
                     /\ tmp_dir' = tmp_dir
                [] removal_handler(outcome) = "Exception" ->
                     /\ root_files' = root_files
                     /\ frame' = Return(frame, FALSE, frame.local_version, FALSE)
                     /\ obs' = ObsExit(o, "rm_error")
                     /\ tmp_dir' = TemporaryDirectory_cleanup(tmp_dir)
    /\ UNCHANGED <<main_state, maafw_dest>>
    /\ UNCHANGED fcall

install_mxu_prompt ==
    /\ frame.fn = "mxu" /\ frame.at = "prompt"
    /\ \E line \in OperatorInputs :
          LET o == [obs EXCEPT !.prompts = @ + 1,
                               !.last_cmd = line]
          IN  IF is_cancel(line)
              THEN /\ frame' = Return(frame, FALSE, frame.local_version, FALSE)
                   /\ obs' = ObsExit(o, "abort")
                   /\ tmp_dir' = TemporaryDirectory_cleanup(tmp_dir)
              ELSE /\ frame' = [frame EXCEPT !.at = "remove"]
                   /\ obs' = o
                   /\ tmp_dir' = tmp_dir
    /\ UNCHANGED <<main_state, maafw_dest, root_files>>
    /\ UNCHANGED fcall

\* unpack_archive, then the listing of the extraction root's top level
install_mxu_extract ==
    /\ frame.fn = "mxu" /\ frame.at = "extract"
    /\ LET o == [obs EXCEPT !.extracts = @ + 1]
           a == tmp_dir.archive
       IN  IF a.corrupt
           THEN /\ frame' = Return(frame, FALSE, frame.local_version, FALSE)
                /\ obs' = ObsExit(o, "unpack")
                /\ tmp_dir' = TemporaryDirectory_cleanup(tmp_dir)
           ELSE /\ frame' = [frame EXCEPT !.at = "copy", !.pending = a.items,
                                          !.copied = FALSE]
                /\ obs' = o
                /\ tmp_dir' = [tmp_dir EXCEPT !.extracted = TRUE]
    /\ UNCHANGED <<main_state, maafw_dest, root_files>>
    /\ UNCHANGED fcall

\* one iteration of `for item in extract_root.iterdir()`; copy2 may raise
install_mxu_copy ==
    /\ frame.fn = "mxu" /\ frame.at = "copy" /\ frame.pending # {}
    /\ \E item \in frame.pending, copy_ok \in BOOLEAN :
          IF ~is_target(item, OS_KEYWORD)
          THEN /\ copy_ok
               /\ frame' = [frame EXCEPT !.pending = @ \ {item}]
               /\ UNCHANGED <<obs, tmp_dir, root_files>>
          ELSE LET o == [obs EXCEPT !.copies = @ + 1]
               IN  IF ~copy_ok
                   THEN /\ frame' = Return(frame, FALSE, frame.local_version, FALSE)
                        /\ obs' = ObsExit(o, "copy")
                        /\ tmp_dir' = TemporaryDirectory_cleanup(tmp_dir)
                        /\ root_files' = root_files
                   ELSE /\ frame' = [frame EXCEPT
                                       !.pending = @ \ {item},
                                       !.copied = @ \/ is_primary(item, OS_KEYWORD)]
                        /\ obs' = o
                        /\ tmp_dir' = tmp_dir
                        /\ root_files' = [root_files EXCEPT ![item] = "new"]
    /\ UNCHANGED <<main_state, maafw_dest>>
    /\ UNCHANGED fcall

\* `if not copied: return False, ...` and the final return
install_mxu_done ==
    /\ frame.fn = "mxu" /\ frame.at = "copy" /\ frame.pending = {}
    /\ LET v == OrElse(frame.remote_version, frame.local_version)
       IN  IF ~frame.copied
           THEN /\ frame' = Return(frame, FALSE, frame.local_version, FALSE)
                /\ obs' = ObsExit(obs, "payload")
           ELSE /\ frame' = Return(frame, TRUE, v, TRUE)
                /\ obs' = ObsExit(obs, "success")
    /\ tmp_dir' = TemporaryDirectory_cleanup(tmp_dir)
    /\ UNCHANGED <<main_state, maafw_dest, root_files>>
    /\ UNCHANGED fcall

main_after_mxu ==
    /\ pc = "in_mxu" /\ frame.fn = "mxu" /\ frame.at = "ret"
    /\ IF ~frame.ret.ok
       THEN Exit(1) /\ UNCHANGED <<versions, any_downloaded>>
       ELSE /\ versions' = record_version(versions, "mxu", frame.ret.version)
            /\ any_downloaded' = (any_downloaded \/ frame.ret.downloaded)
            /\ pc' = "finish"
            /\ UNCHANGED exit_code
    /\ frame' = NoFrame
    /\ obs' = ObsResult(ClearCallEvents(obs), frame.fn, frame.ret)
    /\ UNCHANGED <<args, OS_KEYWORD, version_file, maafw_dest, root_files, tmp_dir,
                   local_versions>>
    /\ UNCHANGED fcall

\* ------------------------------------------------------------------------
\* the end of main
\* ------------------------------------------------------------------------

\* a write that does not look at any_downloaded
should_write_unless_ci(ci, downloaded) == ~ci

\* `if not args.ci and any_downloaded`
should_write(ci, downloaded) == ~ci /\ downloaded

main_finish ==
    /\ pc = "finish"
    /\ IF should_write(args.ci, any_downloaded)
       THEN /\ obs' = [obs EXCEPT !.writes = @ + 1, !.written = versions]
            /\ \/ /\ encodable(versions)
                  /\ version_file' = write_versions_file(version_file, versions)
               \/ version_file' \in write_versions_failed(version_file)
       ELSE UNCHANGED <<obs, version_file>>
    /\ Exit(0)
    /\ UNCHANGED <<args, OS_KEYWORD, maafw_dest, root_files, tmp_dir,
                   local_versions, versions, any_downloaded, frame>>
    /\ UNCHANGED fcall

Next ==
    \/ main_start
    \/ main_update_submodules
    \/ main_run_build_script
    \/ main_call_install_maafw
    \/ install_maafw_begin
    \/ install_maafw_resolve
    \/ install_maafw_download
    \/ install_maafw_remove
    \/ install_maafw_prompt
    \/ install_maafw_extract
    \/ install_maafw_copy
    \/ install_maafw_done
    \/ main_after_maafw
    \/ main_call_install_mxu
    \/ install_mxu_begin
    \/ install_mxu_resolve
    \/ install_mxu_download
    \/ install_mxu_remove
    \/ install_mxu_prompt
    \/ install_mxu_extract
    \/ install_mxu_copy
    \/ install_mxu_done
    \/ main_after_mxu
    \/ main_finish

Spec == Init /\ [][Next]_vars

\* the program is sequential and always takes its next step; the operator
\* answers every prompt
FairSpec == Spec /\ WF_vars(Next)

\* ------------------------------------------------------------------------
\* Properties
\* ------------------------------------------------------------------------

\* the running install has returned to main, which has not yet moved on
Returned == frame.at = "ret"

\* the destination of the running install is exactly as it was at startup
\* (neither install touches the other's destination)
Untouched ==
    IF frame.fn = "maafw" THEN maafw_dest = obs.dest0 ELSE root_files = obs.root0

\* every file of the previous installation is in place, and no other
PreviousIntact ==
    IF frame.fn = "maafw"
    THEN maafw_dest.files = obs.dest0.files
    ELSE root_files = obs.root0

\* the destination holds the whole payload of the downloaded archive:
\* for maafw the entries of bin and nothing else, for mxu every target entry
NewComplete ==
    IF frame.fn = "maafw"
    THEN /\ maafw_dest.exists
         /\ \A n \in MfwNames(OS_KEYWORD) :
               maafw_dest.files[n] = IF n \in obs.payload THEN "new" ELSE "none"
    ELSE /\ \E n \in obs.payload : is_primary(n, OS_KEYWORD)
         /\ \A n \in obs.payload : root_files[n] = "new"
         /\ root_files[MXU_DIST_NAME(OS_KEYWORD)] # "old"

\* what the removal loop deletes (the maafw directory's entries, the mxu
\* executable) is no longer there
PreviousGone ==
    IF frame.fn = "maafw"
    THEN \A n \in MfwNames(OS_KEYWORD) : maafw_dest.files[n] # "old"
    ELSE root_files[MXU_DIST_NAME(OS_KEYWORD)] # "old"

\* the expected artifact of the running install's component was on disk
\* when the install was called
ArtifactOnDisk ==
    IF frame.fn = "maafw"
    THEN obs.dest0.exists /\ obs.dest0.files[MFW_DIST_NAME(OS_KEYWORD)] # "none"
    ELSE obs.root0[MXU_DIST_NAME(OS_KEYWORD)] # "none"

\* C1 as stated: whenever install_maafw or install_mxu returns, the
\* destination holds either the complete previous installation or the
\* complete new payload.
C1_AtomicReplace ==
    Returned => (PreviousIntact \/ (frame.ret.downloaded /\ NewComplete))

\* C1 amended: the previous installation is removed before the payload is
\* extracted.  An install that returns before any removal attempt and before
\* extraction leaves the destination as it was; one that returns success
\* after downloading leaves the complete new payload; one that returns
\* failure after a removal succeeded leaves nothing of the previous maafw
\* directory, or of the previous mxu executable.
C1_RemoveThenCopy ==
    Returned =>
        /\ (obs.attempts = 0 /\ obs.extracts = 0) => Untouched
        /\ (frame.ret.ok /\ frame.ret.downloaded) => NewComplete
        /\ (~frame.ret.ok /\ obs.last_rm = "ok") => PreviousGone

\* a failed install that has removed an existing installation
C1_Witness ==
    /\ Returned /\ ~frame.ret.ok /\ obs.last_rm = "ok"
    /\ frame.installed /\ ~PreviousIntact

\* main has the results of both installs and both are success
BothSucceeded ==
    \A c \in Components : obs.rets[c].returned /\ obs.rets[c].ok

\* the install of c returned success having downloaded and copied a payload
InstalledNew(c) ==
    obs.rets[c].returned /\ obs.rets[c].ok /\ obs.rets[c].downloaded

\* C2 as stated: without the ci flag, whenever a component's install
\* succeeded having downloaded a new payload, the ledger has been written by
\* the time the process ends, mapping the component to the returned version.
C2_WrittenAfterAnySuccess ==
    (pc = "exit" /\ ~args.ci) =>
        \A c \in Components :
            InstalledNew(c) =>
                obs.writes = 1 /\ obs.written[c] = obs.rets[c].version

\* C2 amended: without the ci flag, when a component's install succeeded
\* having downloaded a new payload and the other install succeeded too,
\* write_versions_file has been called once by the time the process ends, with
\* a mapping that holds the version the install returned for the component,
\* and the file holds that mapping unless the write raised; when the other
\* install failed the process ends without any write.
C2_WrittenAfterBothSucceed ==
    (pc = "exit" /\ ~args.ci) =>
        \A c \in Components :
            InstalledNew(c) =>
                IF BothSucceeded
                THEN /\ obs.writes = 1
                     /\ obs.written[c] = obs.rets[c].version
                     /\ \/ /\ version_file.exists /\ version_file.wellformed
                           /\ read_versions_file(version_file) = obs.written
                        \/ version_file = obs.file0
                        \/ (version_file.exists /\ ~version_file.wellformed)
                ELSE obs.writes = 0 /\ version_file = obs.file0

\* maafw was downloaded and installed with a tag name the ledger did not
\* hold, mxu succeeded, and the file holds the new mapping
C2_Witness ==
    /\ pc = "exit" /\ ~args.ci /\ InstalledNew("maafw") /\ BothSucceeded
    /\ Truthy(obs.rets["maafw"].version)
    /\ obs.rets["maafw"].version # local_versions["maafw"]
    /\ version_file.wellformed
    /\ read_versions_file(version_file)["maafw"] = obs.rets["maafw"].version

\* C3: the ledger is written at most once per run, only at the end of a run
\* in which both installs returned success, the ci flag is off and at least
\* one install reported a download; in every other run the file stays as it
\* was at startup.
C3_WriteOnceAtEnd ==
    /\ obs.writes <= 1
    /\ obs.writes = 1 =>
          /\ pc = "exit" /\ exit_code = 0
          /\ BothSucceeded
          /\ ~args.ci
          /\ \E c \in Components : obs.rets[c].downloaded
    /\ obs.writes = 0 => version_file = obs.file0

\* a run that wrote the ledger although only mxu was downloaded
C3_Witness ==
    /\ obs.writes = 1
    /\ ~obs.rets["maafw"].downloaded /\ obs.rets["mxu"].downloaded
    /\ version_file # obs.file0

\* C4: with skip-if-exists on and the artifact on disk, the install returns
\* (True, local_version, False) with no feed query, no download, no removal
\* and the destination untouched, whatever the ledger holds.
C4_SkipIfExists ==
    (frame.fn # "none" /\ frame.at # "begin" /\ ~args.update /\ ArtifactOnDisk) =>
        /\ Returned
        /\ frame.ret = [ok |-> TRUE, version |-> local_versions[frame.fn],
                        downloaded |-> FALSE]
        /\ obs.queries = 0 /\ obs.downloads = 0 /\ obs.attempts = 0
        /\ obs.extracts = 0 /\ obs.copies = 0
        /\ Untouched
        /\ ~tmp_dir.exists

\* mxu skipped with an empty ledger
C4_Witness ==
    /\ Returned /\ frame.fn = "mxu" /\ ~args.update /\ ArtifactOnDisk
    /\ local_versions = EmptyDict
    /\ frame.ret.ok

\* C5: after a successful resolution the install returns success without
\* downloading and without touching the installation exactly when update-mode
\* is on, the component exists, both versions are known and
\* compare_semver(local, remote) >= 0; otherwise it goes on to download.
C5_UpdateShortCircuit ==
    (frame.fn # "none" /\ obs.resolved) =>
        IF /\ args.update
           /\ ArtifactOnDisk
           /\ Truthy(frame.local_version)
           /\ Truthy(frame.remote_version)
           /\ compare_semver(frame.local_version, frame.remote_version) >= 0
        THEN /\ Returned
             /\ frame.ret = [ok |-> TRUE, version |-> frame.local_version,
                             downloaded |-> FALSE]
             /\ obs.downloads = 0 /\ obs.attempts = 0 /\ obs.extracts = 0
             /\ Untouched
        ELSE frame.at = "download" \/ obs.downloads = 1

\* update-mode, local 1.2.0 and remote 1.2.0: no download
C5_Witness ==
    /\ Returned /\ obs.resolved /\ args.update /\ ArtifactOnDisk
    /\ frame.local_version = Txt_1_2_0 /\ frame.remote_version = Txt_1_2_0
    /\ frame.ret.ok /\ obs.downloads = 0

\* something was at the place the running install removes before extracting
DestExisted ==
    IF frame.fn = "maafw"
    THEN obs.dest0.exists
    ELSE obs.root0[MXU_DIST_NAME(OS_KEYWORD)] # "none"

\* the destination of the running install does not change in this step
DestUnchanged == maafw_dest' = maafw_dest /\ root_files' = root_files

\* the operator's line is the cancel token after trimming and lower-casing
TypedCancel(line) == lower(strip(line)) = <<"q">>

C6_State ==
    frame.fn # "none" =>
        /\ obs.prompts = IF frame.at = "prompt" THEN obs.locked - 1 ELSE obs.locked
        /\ frame.at = "prompt" => obs.last_rm = "locked"
        /\ (obs.extracts > 0 \/ frame.at \in {"extract", "copy"}) =>
              \/ obs.last_rm = "ok"
              \/ obs.attempts = 0 /\ ~DestExisted

C6_Step ==
    /\ obs'.locked = obs.locked + 1 =>
          /\ frame'.at = "prompt"
          /\ obs'.prompts = obs.prompts
    /\ frame.at = "prompt" =>
          /\ obs'.prompts = obs.prompts + 1
          /\ obs'.attempts = obs.attempts
          /\ DestUnchanged
          /\ IF TypedCancel(obs'.last_cmd)
             THEN /\ frame'.at = "ret"
                  /\ frame'.ret = [ok |-> FALSE, version |-> frame.local_version,
                                   downloaded |-> FALSE]
             ELSE frame'.at = "remove"
    /\ (frame.at = "remove" /\ obs.last_rm = "locked") =>
          /\ obs'.attempts = obs.attempts + 1
          /\ obs'.prompts = obs.prompts

\* C6: every removal attempt that fails with PermissionError is followed by
\* exactly one prompt before anything else; an answer other than "q" (trimmed,
\* lower-cased) leads to another removal attempt, "q" makes the install return
\* failure; extraction starts only after a removal succeeded or when nothing
\* was there to remove.
C6_RetryLoop == [](C6_State) /\ [][C6_Step]_vars

\* locked twice: the first prompt was answered with a retry, the second with
\* " Q" and a tab, and the install returned failure
C6_Witness ==
    /\ Returned /\ obs.locked = 2 /\ obs.prompts = 2 /\ obs.attempts = 2
    /\ obs.last_cmd = <<" ", "Q", "\t">>
    /\ ~frame.ret.ok

\* the removal loop of the running install was entered and has been left
LoopLeft == frame.fn # "none" /\ obs.attempts >= 1 /\ frame.at \notin {"remove", "prompt"}

\* the loop ends only on a successful removal, a non-lock error or an abort
LoopExitReasons ==
    LoopLeft =>
        \/ obs.last_rm = "ok"
        \/ obs.last_rm = "error"
        \/ obs.last_rm = "locked" /\ TypedCancel(obs.last_cmd)

\* main holds the version of every install that downloaded
VersionRecorded ==
    \A c \in Components : InstalledNew(c) => versions[c] = obs.rets[c].version

\* C7 as stated: once a removal attempt succeeds after any number of locked
\* attempts answered with a retry, the install extracts and copies the
\* payload and returns success with downloaded = True, and the version is
\* recorded; the loop ends only on success, a non-lock error or an abort.
C7_RetryThenSuccess ==
    /\ (Returned /\ obs.last_rm = "ok") => (frame.ret.ok /\ frame.ret.downloaded)
    /\ LoopExitReasons
    /\ VersionRecorded

C7_State ==
    /\ (Returned /\ obs.last_rm = "ok") =>
          /\ obs.extracts = 1
          /\ obs.path \in {"unpack", "payload", "copy", "success"}
          /\ obs.path = "success" =>
                /\ frame.ret = [ok |-> TRUE,
                                version |-> OrElse(frame.remote_version,
                                                   frame.local_version),
                                downloaded |-> TRUE]
                /\ NewComplete
          /\ obs.path # "success" => ~frame.ret.ok
    /\ LoopExitReasons
    /\ VersionRecorded

\* C7 amended: once a removal attempt succeeds after any number of locked
\* attempts answered with a retry, the install leaves the loop and extracts;
\* it returns success with downloaded = True and the remote (else local)
\* version, which main records, when unpacking and copying raise nothing and
\* the payload is found, and failure otherwise.  The loop has no retry cap:
\* it ends only on a successful removal, a non-lock error or an abort, and
\* once entered it is eventually left when the lock is eventually released
\* and the operator keeps answering.
C7_RetryThenExtract ==
    /\ [](C7_State)
    /\ (frame.at \in {"remove", "prompt"}) ~> Returned

\* as many locked attempts as the environment allows, each answered with a
\* retry, then a successful removal and a successful install
C7_Witness ==
    /\ Returned /\ obs.locked = MaxLocked /\ obs.prompts = MaxLocked
    /\ obs.last_rm = "ok" /\ obs.path = "success"
    /\ frame.ret.ok /\ frame.ret.downloaded

\* no file of a new payload is in the destination of the running install
NothingCopied ==
    IF frame.fn = "maafw"
    THEN \A n \in MfwNames(OS_KEYWORD) : maafw_dest.files[n] # "new"
    ELSE \A n \in RootNames : root_files[n] # "new"

\* C8: a removal error that is not a PermissionError ends the install at
\* once: it returns (False, local_version, False), with no prompt for it, no
\* further removal attempt, and nothing extracted or copied.
C8_FatalRemovalError ==
    (frame.fn # "none" /\ obs.last_rm = "error") =>
        /\ Returned
        /\ frame.ret = [ok |-> FALSE, version |-> local_versions[frame.fn],
                        downloaded |-> FALSE]
        /\ obs.attempts = obs.locked + 1
        /\ obs.prompts = obs.locked
        /\ obs.extracts = 0 /\ obs.copies = 0
        /\ NothingCopied

\* a fatal error on the attempt that follows a retry
C8_Witness ==
    /\ Returned /\ obs.last_rm = "error" /\ obs.locked = 1 /\ obs.attempts = 2
    /\ ~frame.ret.ok

\* C9: the temporary directory of an install, with the archive and the
\* extraction root in it, is gone when the install has returned, whatever the
\* return statement; it exists only inside the with block.
C9_TmpDirRemoved ==
    /\ (Returned \/ frame.fn = "none") => tmp_dir = NoTmp
    /\ tmp_dir.exists => frame.at \in {"remove", "prompt", "extract", "copy"}

\* an install that left through the except clause of the copy loop
C9_Witness ==
    /\ Returned /\ obs.path = "copy" /\ obs.downloads = 1 /\ obs.extracts = 1
    /\ ~tmp_dir.exists

\* C10: a failed install ends the process with a non-zero status and no
\* ledger write; after a failure of maafw, mxu is never attempted; the status
\* is zero only when both installs returned success.
C10_FailureIsFatal ==
    /\ \A c \in Components :
          (obs.rets[c].returned /\ ~obs.rets[c].ok) =>
              /\ pc = "exit" /\ exit_code = 1
              /\ obs.writes = 0 /\ version_file = obs.file0
    /\ (obs.rets["maafw"].returned /\ ~obs.rets["maafw"].ok) =>
          /\ ~obs.called["mxu"]
          /\ ~obs.rets["mxu"].returned
          /\ root_files = obs.root0
    /\ pc = "exit" => exit_code \in {0, 1}
    /\ (pc = "exit" /\ exit_code = 0) => BothSucceeded
    /\ pc # "exit" => exit_code = -1

\* the process has exited with status 1 on a failure of maafw
C10_Witness ==
    /\ pc = "exit" /\ exit_code = 1
    /\ obs.rets["maafw"].returned /\ ~obs.rets["maafw"].ok
    /\ ~obs.called["mxu"]

\* C17: whenever main writes the ledger, the written mapping holds every
\* entry loaded at startup with its loaded value, other components' keys
\* included, except that the entry of a component whose install returned a
\* known version is that version; no loaded entry is lost.
C17_WrittenKeepsLoaded ==
    obs.writes = 1 =>
        /\ local_versions = read_versions_file(obs.file0)
        /\ \A k \in LedgerKeys :
              obs.written[k] =
                  IF k \in Components /\ obs.rets[k].version \notin {None, <<>>}
                  THEN obs.rets[k].version
                  ELSE local_versions[k]
        /\ \A k \in LedgerKeys : local_versions[k] # None => obs.written[k] # None

\* a write that replaces maafw's loaded version by the one its install
\* returned and keeps mxu's and another component's loaded entries
C17_Witness ==
    /\ obs.writes = 1
    /\ local_versions["other"] = Txt_0_1 /\ obs.written["other"] = Txt_0_1
    /\ local_versions["maafw"] = Txt_1_2_0 /\ obs.written["maafw"] = Txt_v1_9_9
    /\ local_versions["mxu"] = Txt_1_2_0 /\ obs.written["mxu"] = Txt_1_2_0

\* C18: an install that downloaded and copied returns success, downloaded =
\* true and the remote tag name as the version, or the local version it was
\* given when the feed gave no tag name; an install that fails or returns
\* early (skip, update short-circuit) returns the local version it was given
\* and downloaded = false.
C18_ReturnedVersion ==
    Returned =>
        /\ frame.local_version = local_versions[frame.fn]
        /\ obs.path = "success" =>
              /\ frame.ret.ok /\ frame.ret.downloaded
              /\ obs.copies >= 1
              /\ frame.ret.version =
                    IF frame.remote_version \notin {None, <<>>}
                    THEN frame.remote_version
                    ELSE frame.local_version
        /\ obs.path # "success" =>
              /\ frame.ret.version = frame.local_version
              /\ ~frame.ret.downloaded
        /\ obs.path \in {"skip", "uptodate"} => frame.ret.ok
        /\ obs.path \notin {"skip", "uptodate", "success"} => ~frame.ret.ok

\* a successful install from a tag without a name returns the known local
\* version, which differs from nothing the feed said
C18_Witness ==
    /\ Returned
    /\ obs.path = "success"
    /\ frame.remote_version = None
    /\ frame.local_version = Txt_1_10_0
    /\ frame.ret = [ok |-> TRUE, version |-> Txt_1_10_0, downloaded |-> TRUE]

\* C20: a removal of the previous installation is attempted, and the
\* destination changes, only after the release was resolved and the download
\* completed; an install that returns because the release was not found, the
\* update short-circuit applied or the download failed has made no removal
\* attempt and leaves the destination exactly as it was.
C20_RemoveAfterDownload ==
    frame.fn # "none" =>
        /\ (obs.attempts > 0 \/ ~Untouched) =>
              /\ obs.resolved
              /\ obs.downloads = 1
              /\ obs.path # "download"
        /\ (Returned /\ obs.path \in {"notfound", "uptodate", "download"}) =>
              /\ obs.attempts = 0
              /\ Untouched
        /\ (Returned /\ obs.path = "notfound") => (~obs.resolved /\ obs.downloads = 0)
        /\ (Returned /\ obs.path = "uptodate") => (obs.resolved /\ obs.downloads = 0)
        /\ (Returned /\ obs.path = "download") => (obs.resolved /\ obs.downloads = 1)

\* a failed download with a previous installation in place, which is all
\* still there
C20_Witness ==
    /\ Returned
    /\ obs.path = "download"
    /\ DestExisted
    /\ obs.attempts = 0
    /\ Untouched

\* ------------------------------------------------------------------------
\* Functions taken on their own: the program at rest
\* ------------------------------------------------------------------------

\* the bootstrap is not running while one function is applied to its inputs
Idle ==
    /\ args = [update |-> FALSE, ci |-> FALSE]
    /\ OS_KEYWORD = "linux"
    /\ version_file = [exists |-> FALSE, wellformed |-> FALSE, versions |-> <<>>]
    /\ maafw_dest = [exists |-> FALSE, files |-> NoFiles("linux")]
    /\ root_files = [n \in RootNames |-> "none"]
    /\ tmp_dir = NoTmp
    /\ pc = "idle"
    /\ local_versions = EmptyDict
    /\ versions = EmptyDict
    /\ any_downloaded = FALSE
    /\ frame = NoFrame
    /\ exit_code = -1
    /\ obs = ZeroObs

\* ------------------------------------------------------------------------
\* ReleaseResolver: get_latest_release_url
\* ------------------------------------------------------------------------

\* `needle in haystack` on strings
contains(haystack, needle) ==
    \E i \in 0..(Len(haystack) - Len(needle)) :
        SubSeq(haystack, i + 1, i + Len(needle)) = needle

\* an asset that carries any one of the keywords
matches_any(asset, keywords) ==
    \E i \in 1..Len(keywords) : contains(lower(asset.name), lower(keywords[i]))

\* all(k.lower() in name for k in keywords), name being asset["name"].lower()
matches(asset, keywords) ==
    \A i \in 1..Len(keywords) : contains(lower(asset.name), lower(keywords[i]))

\* the skip test read as `not prerelease and (prerelease-tag or draft)`
is_skipped_unless_allowed(tag, prerelease) ==
    ~prerelease /\ (tag.prerelease \/ tag.draft)

\* the test that makes the loop over tags `continue`
is_skipped(tag, prerelease) ==
    (~prerelease /\ tag.prerelease) \/ tag.draft

\* what the function returns when anything was raised
NotFound == [url |-> None, filename |-> None, tag_name |-> None]

\* the loop over one tag's assets: index of the first match from j on, else 0
RECURSIVE first_asset(_, _, _)
first_asset(assets, keywords, j) ==
    IF j > Len(assets) THEN 0
    ELSE IF matches(assets[j], keywords) THEN j
    ELSE first_asset(assets, keywords, j + 1)

\* the loop over the tags from i on; running off the end raises ValueError
RECURSIVE scan_tags(_, _, _, _)
scan_tags(tags, keywords, prerelease, i) ==
    IF i > Len(tags) THEN NotFound
    ELSE IF is_skipped(tags[i], prerelease)
    THEN scan_tags(tags, keywords, prerelease, i + 1)
    ELSE LET j == first_asset(tags[i].assets, keywords, 1)
         IN  IF j = 0 THEN scan_tags(tags, keywords, prerelease, i + 1)
             ELSE [url      |-> tags[i].assets[j].browser_download_url,
                   filename |-> tags[i].assets[j].name,
                   tag_name |-> OrElse(tags[i].tag_name, tags[i].name)]

\* feed.ok: the request and json.loads raised nothing; an empty list raises
get_latest_release_url(feed, keywords, prerelease) ==
    IF ~feed.ok THEN NotFound
    ELSE IF feed.tags = <<>> THEN NotFound
    ELSE scan_tags(feed.tags, keywords, prerelease, 1)

\* --- inputs ---

\* longest feed
MaxTags == 2

Name_ab == <<"a", "b">>
Name_Ba == <<"B", "a">>

\* asset file names of one tag, in feed order
AssetLists == {<<>>, <<Name_ab>>, <<Name_Ba, Name_ab>>, <<Name_ab, Name_Ba>>}

KeywordLists ==
    { <<Name_ab>>,                    \* fits ab only
      <<Name_Ba>>,                    \* fits Ba only, after lower-casing both
      << <<"a">>, <<"B">> >>,         \* fits both
      <<Name_ab, Name_Ba>> }          \* fits neither: each carries one keyword

TagKinds == [prerelease : BOOLEAN, draft : BOOLEAN, names : AssetLists]

\* which of tag_name and name the feed's tags carry
Namings == {"tag_name", "name", "neither"}

AssetUrl(i, j) == <<"u", Digits[i + 1], Digits[j + 1]>>

TagName(i) == <<"t", Digits[i + 1]>>

ReleaseName(i) == <<"n", Digits[i + 1]>>

\* the tags of a feed: every asset has its own url, every tag its own names
Tags(kinds, naming) ==
    [i \in 1..Len(kinds) |->
        [tag_name   |-> IF naming = "tag_name" THEN TagName(i) ELSE None,
         name       |-> IF naming = "neither" THEN None ELSE ReleaseName(i),
         prerelease |-> kinds[i].prerelease,
         draft      |-> kinds[i].draft,
         assets     |-> [j \in 1..Len(kinds[i].names) |->
                            [name |-> kinds[i].names[j],
                             browser_download_url |-> AssetUrl(i, j)]]]]

Feeds ==
    {[ok |-> FALSE, tags |-> <<>>]}
    \cup {[ok |-> TRUE, tags |-> Tags(kinds, naming)] :
            kinds \in UNION {[1..n -> TagKinds] : n \in 0..MaxTags},
            naming \in Namings}

ResolverInit ==
    /\ Idle
    /\ fcall \in [fn : {"get_latest_release_url"}, feed : Feeds,
                  keywords : KeywordLists, prerelease : BOOLEAN,
                  returned : {FALSE}, result : {NotFound}]

call_get_latest_release_url ==
    /\ fcall.fn = "get_latest_release_url"
    /\ ~fcall.returned
    /\ fcall' = [fcall EXCEPT
                   !.returned = TRUE,
                   !.result = get_latest_release_url(fcall.feed, fcall.keywords,
                                                     fcall.prerelease)]
    /\ UNCHANGED program_vars

ResolverSpec == ResolverInit /\ [][call_get_latest_release_url]_vars

\* --- properties of the resolver ---

ResolverReturned == fcall.fn = "get_latest_release_url" /\ fcall.returned

\* the file name carries every keyword, letter case apart
Fits(name, keywords) ==
    \A k \in 1..Len(keywords) :
        \E off \in 0..Len(name) :
            /\ off + Len(keywords[k]) <= Len(name)
            /\ \A p \in 1..Len(keywords[k]) :
                  lowerChar(name[off + p]) = lowerChar(keywords[k][p])

\* tag i has an asset that fits
Offers(i) ==
    \E j \in 1..Len(fcall.feed.tags[i].assets) :
        Fits(fcall.feed.tags[i].assets[j].name, fcall.keywords)

\* the claim's rule for passing a tag over
PassedOver(i) ==
    \/ ~fcall.prerelease /\ fcall.feed.tags[i].prerelease
    \/ fcall.feed.tags[i].draft

\* the tag the returned url belongs to; one past the end when nothing was found
SourceTag ==
    IF \E i \in 1..Len(fcall.feed.tags) :
          \E j \in 1..Len(fcall.feed.tags[i].assets) : fcall.result.url = AssetUrl(i, j)
    THEN CHOOSE i \in 1..Len(fcall.feed.tags) :
          \E j \in 1..Len(fcall.feed.tags[i].assets) : fcall.result.url = AssetUrl(i, j)
    ELSE Len(fcall.feed.tags) + 1

\* C11: the resolver passes a tag over exactly when prereleases are disallowed
\* and the tag is a prerelease, or the tag is a draft: the source of a result
\* is never a draft (also with prereleases allowed) and is a prerelease only
\* when they are allowed, and every tag before the source (every tag, when
\* nothing is found) that offers a fitting asset was passed over by that rule.
C11_SkipRule ==
    ResolverReturned =>
        /\ SourceTag <= Len(fcall.feed.tags) =>
              /\ ~fcall.feed.tags[SourceTag].draft
              /\ fcall.feed.tags[SourceTag].prerelease => fcall.prerelease
              /\ ~PassedOver(SourceTag)
        /\ \A i \in 1..Len(fcall.feed.tags) :
              (i < SourceTag /\ Offers(i)) => PassedOver(i)
        /\ \A i \in 1..Len(fcall.feed.tags) :
              (PassedOver(i) /\ Offers(i)) => SourceTag # i

\* a draft that offers a fitting asset is passed over although prereleases are
\* allowed, a prerelease after it is the source
C11_Witness ==
    /\ ResolverReturned
    /\ fcall.prerelease
    /\ Len(fcall.feed.tags) = 2
    /\ fcall.feed.tags[1].draft /\ Offers(1)
    /\ fcall.feed.tags[2].prerelease /\ ~fcall.feed.tags[2].draft
    /\ SourceTag = 2

\* the (tag, asset) positions the claim calls eligible and fitting
Candidates ==
    UNION {{<<i, j>> : j \in {j \in 1..Len(fcall.feed.tags[i].assets) :
                                  Fits(fcall.feed.tags[i].assets[j].name,
                                       fcall.keywords)}} :
           i \in {i \in 1..Len(fcall.feed.tags) : ~PassedOver(i)}}

\* c comes no later than d in feed order
Earlier(c, d) == c[1] < d[1] \/ (c[1] = d[1] /\ c[2] <= d[2])

\* C12: for a feed that was fetched, the resolver returns the url and file name
\* of the fitting asset at the smallest (tag, asset) position among the
\* eligible tags, with that tag's name (tag_name, else name), and returns
\* not-found exactly when there is no such asset.
C12_FirstMatch ==
    (ResolverReturned /\ fcall.feed.ok) =>
        IF Candidates = {}
        THEN fcall.result = NotFound
        ELSE LET c == CHOOSE c \in Candidates : \A d \in Candidates : Earlier(c, d)
                 tag == fcall.feed.tags[c[1]]
             IN  /\ fcall.result.url = AssetUrl(c[1], c[2])
                 /\ fcall.result.filename = tag.assets[c[2]].name
                 /\ fcall.result.tag_name =
                       (IF tag.tag_name # None THEN tag.tag_name ELSE tag.name)

\* the second asset of the first tag is returned while the second tag fits too
C12_Witness ==
    /\ ResolverReturned
    /\ fcall.result.url = AssetUrl(1, 2)
    /\ \E c \in Candidates : c[1] = 2
    /\ fcall.result.tag_name = ReleaseName(1)

\* ------------------------------------------------------------------------
\* VersionComparator: parse_semver and compare_semver
\* ------------------------------------------------------------------------

\* all texts of at most n characters of an alphabet
Texts(alphabet, n) == UNION {[1..k -> alphabet] : k \in 0..n}

\* --- parse_semver on every short text ---

\* longest text handed to parse_semver
MaxParseLen == 4

ParseAlphabet == {"v", "V", "1", "2", ".", "-", "a", " ", SuperscriptTwo}

ParseInit ==
    /\ Idle
    /\ fcall \in [fn : {"parse_semver"}, version : Texts(ParseAlphabet, MaxParseLen),
                  returned : {FALSE}, result : {<<>>}]

call_parse_semver ==
    /\ fcall.fn = "parse_semver"
    /\ ~fcall.returned
    /\ fcall' = [fcall EXCEPT !.returned = TRUE,
                              !.result = parse_semver(fcall.version)]
    /\ UNCHANGED program_vars

ParseSpec == ParseInit /\ [][call_parse_semver]_vars

\* --- compare_semver on every pair of short optional texts ---

\* longest version text handed to compare_semver
MaxVersionLen == 3

VersionAlphabet == {"0", "1", "9", ".", SuperscriptTwo}

OptionalVersions == {None} \cup Texts(VersionAlphabet, MaxVersionLen)

CompareInit ==
    /\ Idle
    /\ fcall \in [fn : {"compare_semver"}, a : OptionalVersions, b : OptionalVersions,
                  returned : {FALSE}, result : {0}]

call_compare_semver ==
    /\ fcall.fn = "compare_semver"
    /\ ~fcall.returned
    /\ fcall' = [fcall EXCEPT !.returned = TRUE,
                              !.result = compare_semver(fcall.a, fcall.b)]
    /\ UNCHANGED program_vars

CompareSpec == CompareInit /\ [][call_compare_semver]_vars

\* --- compare_semver as an order on dotted numeric versions ---

\* most components of a dotted version
MaxParts == 2

ComponentTexts == {<<"0">>, <<"2">>, <<"1", "0">>}

\* ".".join(components)
RECURSIVE Dotted(_)
Dotted(components) ==
    IF Len(components) = 1 THEN components[1]
    ELSE components[1] \o <<".">> \o Dotted(Tail(components))

DottedVersions ==
    {Dotted(cs) : cs \in UNION {[1..n -> ComponentTexts] : n \in 1..MaxParts}}

OrderInit ==
    /\ Idle
    /\ fcall \in [fn : {"compare_semver, five calls"},
                  a : DottedVersions, b : DottedVersions, c : DottedVersions,
                  returned : {FALSE},
                  result : {[ab |-> 0, ba |-> 0, aa |-> 0, bc |-> 0, ac |-> 0]}]

call_compare_semver_five ==
    /\ fcall.fn = "compare_semver, five calls"
    /\ ~fcall.returned
    /\ fcall' = [fcall EXCEPT
                   !.returned = TRUE,
                   !.result = [ab |-> compare_semver(fcall.a, fcall.b),
                               ba |-> compare_semver(fcall.b, fcall.a),
                               aa |-> compare_semver(fcall.a, fcall.a),
                               bc |-> compare_semver(fcall.b, fcall.c),
                               ac |-> compare_semver(fcall.a, fcall.c)]]
    /\ UNCHANGED program_vars

OrderSpec == OrderInit /\ [][call_compare_semver_five]_vars

\* --- properties of the comparator ---

\* C13: on dotted numeric versions a, b, c: compare(a, b) = -compare(b, a),
\* compare(a, a) = 0, and compare(a, b) >= 0 with compare(b, c) >= 0 gives
\* compare(a, c) >= 0.
C13_Order ==
    (fcall.fn = "compare_semver, five calls" /\ fcall.returned) =>
        /\ fcall.result.ab \in {-1, 0, 1}
        /\ fcall.result.ab = -fcall.result.ba
        /\ fcall.result.aa = 0
        /\ (fcall.result.ab >= 0 /\ fcall.result.bc >= 0) => fcall.result.ac >= 0

\* three different texts, a the longest, equal to b by zero padding and above
\* c by number though below it as text: 10.0 = 10 > 2
C13_Witness ==
    /\ fcall.fn = "compare_semver, five calls" /\ fcall.returned
    /\ fcall.a = <<"1", "0", ".", "0">> /\ fcall.b = <<"1", "0">> /\ fcall.c = <<"2">>
    /\ fcall.result = [ab |-> 0, ba |-> 0, aa |-> 0, bc |-> 1, ac |-> 1]

\* component i of a parsed sequence padded with zeros on the right
Component(parsed, i) == IF i <= Len(parsed) THEN parsed[i] ELSE 0

\* the sign the claim's reference gives for a and b
Reference(a, b) ==
    IF a = None /\ b = None THEN 0
    ELSE IF b = None THEN 1
    ELSE IF a = None THEN -1
    ELSE LET pa == parse_semver(a)
             pb == parse_semver(b)
             n  == IF Len(pa) >= Len(pb) THEN Len(pa) ELSE Len(pb)
             differ == {i \in 1..n : Component(pa, i) # Component(pb, i)}
         IN  IF differ = {} THEN 0
             ELSE LET k == CHOOSE i \in differ : \A j \in differ : i <= j
                  IN  IF Component(pa, k) > Component(pb, k) THEN 1 ELSE -1

\* C14: for all optional version texts a and b, compare_semver returns (and
\* does not raise) 0 if both are absent, 1 if only a is present, -1 if only b
\* is present, and otherwise the sign of the first differing component of the
\* two parsed sequences padded with zeros, components compared as integers.
C14_MatchesReference ==
    (fcall.fn = "compare_semver" /\ fcall.returned) =>
        /\ fcall.result # Raised
        /\ fcall.result = Reference(fcall.a, fcall.b)

\* decimal digits and their values, as the claim reads "digit"
DecimalValue(ch) ==
    CASE ch = "0" -> 0 [] ch = "1" -> 1 [] ch = "2" -> 2 [] ch = "3" -> 3
      [] ch = "4" -> 4 [] ch = "5" -> 5 [] ch = "6" -> 6 [] ch = "7" -> 7
      [] ch = "8" -> 8 [] ch = "9" -> 9 [] OTHER -> -1

\* the integer of the leading run of decimal digits of a segment, 0 without one
RECURSIVE LeadingValue(_, _)
LeadingValue(segment, sofar) ==
    IF segment = <<>> \/ DecimalValue(Head(segment)) < 0 THEN sofar
    ELSE LeadingValue(Tail(segment), sofar * 10 + DecimalValue(Head(segment)))

\* the text with one leading v or V taken off and cut before the first '-'
VersionCore(version) ==
    LET unprefixed == IF version # <<>> /\ version[1] \in {"v", "V"}
                      THEN SubSeq(version, 2, Len(version)) ELSE version
        hyphens == {i \in 1..Len(unprefixed) : unprefixed[i] = "-"}
    IN  IF hyphens = {} THEN unprefixed
        ELSE SubSeq(unprefixed, 1, (CHOOSE i \in hyphens : \A j \in hyphens : i <= j) - 1)

\* segment k of a text split on '.': what lies between dot k-1 and dot k
Segment(core, k) ==
    LET dots == {i \in 1..Len(core) : core[i] = "."}
        before(i) == Cardinality({j \in dots : j < i})
        first == IF k = 1 THEN 1
                 ELSE (CHOOSE i \in dots : before(i) = k - 2) + 1
        last  == IF k = Cardinality(dots) + 1 THEN Len(core)
                 ELSE (CHOOSE i \in dots : before(i) = k - 1) - 1
    IN  SubSeq(core, first, last)

\* the sequence the claim describes for a text
Described(version) ==
    IF version = <<>> THEN <<>>
    ELSE LET core == VersionCore(version)
             n == Cardinality({i \in 1..Len(core) : core[i] = "."}) + 1
         IN  [k \in 1..n |-> LeadingValue(Segment(core, k), 0)]

\* C15: for every input text parse_semver returns, without raising, the
\* sequence obtained by taking off one leading v or V, cutting at the first
\* '-', splitting on '.', and mapping each segment to the integer of its
\* leading run of digits, or 0 without one; the empty text gives the empty
\* sequence.
C15_ParsesAsDescribed ==
    (fcall.fn = "parse_semver" /\ fcall.returned) =>
        /\ fcall.result # ValueError
        /\ fcall.result = Described(fcall.version)

\* ------------------------------------------------------------------------
\* VersionLedger: write_versions_file and read_versions_file on one path
\* ------------------------------------------------------------------------

\* writes made to the path
MaxWrites == 2

Txt_bad == <<"1", ".", Surrogate>>

\* the mappings handed to write_versions_file
Mappings ==
    {EmptyDict,
     Ledger(Txt_1_2_0, None, None),
     Ledger(Txt_1_10_0, Txt_1_2_0, Txt_0_1),
     Ledger(<<>>, None, Txt_0_1),
     Ledger(None, Txt_bad, None)}

\* the path at first: nothing there, a file that does not parse, a ledger
PathsAtFirst ==
    {[exists |-> FALSE, wellformed |-> FALSE, versions |-> <<>>],
     [exists |-> TRUE,  wellformed |-> FALSE, versions |-> <<>>],
     [exists |-> TRUE,  wellformed |-> TRUE,
      versions |-> json_dump(Ledger(Txt_0_1, Txt_0_1, None))]}

LedgerInit ==
    /\ Idle
    /\ fcall \in [fn : {"versions_file"}, file : PathsAtFirst,
                  m : [1..MaxWrites -> Mappings],
                  writes : {0},          \* calls of write_versions_file so far
                  raised : {FALSE},      \* the latest write raised (and warned)
                  before : {EmptyDict},  \* what a read gave before the latest write
                  fresh : {FALSE},       \* loaded was read after the latest write
                  loaded : {EmptyDict}]

call_read_versions_file ==
    /\ fcall.fn = "versions_file"
    /\ ~fcall.fresh
    /\ fcall' = [fcall EXCEPT !.fresh = TRUE,
                              !.loaded = read_versions_file(fcall.file)]
    /\ UNCHANGED program_vars

call_write_versions_file ==
    /\ fcall.fn = "versions_file"
    /\ fcall.writes < MaxWrites
    /\ LET vs == fcall.m[fcall.writes + 1]
           f  == [fcall EXCEPT !.writes = @ + 1, !.fresh = FALSE,
                               !.before = read_versions_file(fcall.file)]
       IN  \/ /\ encodable(vs)
              /\ fcall' = [f EXCEPT !.raised = FALSE,
                                    !.file = write_versions_file(fcall.file, vs)]
           \/ \E file \in write_versions_failed(fcall.file) :
                 fcall' = [f EXCEPT !.raised = TRUE, !.file = file]
    /\ UNCHANGED program_vars

LedgerNext == call_read_versions_file \/ call_write_versions_file

LedgerSpec == LedgerInit /\ [][LedgerNext]_vars

\* --- properties of the ledger ---

LedgerRead == fcall.fn = "versions_file" /\ fcall.fresh

\* C16 as stated: a read after a write returns exactly the mapping written,
\* after two writes the second one; a read of a path that does not exist
\* returns the empty mapping.
C16_RoundTrip ==
    LedgerRead =>
        /\ fcall.writes >= 1 => fcall.loaded = fcall.m[fcall.writes]
        /\ (fcall.writes = 0 /\ ~fcall.file.exists) => fcall.loaded = EmptyDict

\* C16 amended: a read after a write that raised nothing returns exactly the
\* mapping written (the latest one, as each write replaces the whole file); a
\* write that raised left the file as it was or cut short, and the read
\* returns what the file held before or the empty mapping; a read of a path
\* that does not exist returns the empty mapping.
C16_RoundTripUnlessRaised ==
    LedgerRead =>
        /\ (fcall.writes >= 1 /\ ~fcall.raised) => fcall.loaded = fcall.m[fcall.writes]
        /\ (fcall.writes >= 1 /\ fcall.raised) => fcall.loaded \in {fcall.before, EmptyDict}
        /\ (fcall.writes = 0 /\ ~fcall.file.exists) => fcall.loaded = EmptyDict

\* two writes of different mappings, the second without a key of the first
\* and with an empty version, then a read that returns the second
C16_Witness ==
    /\ LedgerRead
    /\ fcall.writes = 2 /\ ~fcall.raised
    /\ fcall.m[1] = Ledger(Txt_1_10_0, Txt_1_2_0, Txt_0_1)
    /\ fcall.m[2] = Ledger(<<>>, None, Txt_0_1)
    /\ fcall.loaded = fcall.m[2]

\* ------------------------------------------------------------------------
\* ProgressDownloader: the progress line of download_file
\* ------------------------------------------------------------------------

\* Sizes are bytes and clock readings whole seconds; a float is the fraction
\* [num, den] it stands for, and f"{x:.1f}" rounds that fraction to the
\* nearest tenth, ties to even.

\* str(n) of a natural number
RECURSIVE str(_)
str(n) == IF n < 10 THEN <<Digits[n + 1]>> ELSE str(n \div 10) \o <<Digits[(n % 10) + 1]>>

\* f"{x:.1f}" for x >= 0
format_1f(x) ==
    LET q == (x.num * 10) \div x.den
        r == (x.num * 10) % x.den
        tenths == IF 2 * r > x.den \/ (2 * r = x.den /\ q % 2 = 1) THEN q + 1 ELSE q
    IN  str(tenths \div 10) \o <<".">> \o str(tenths % 10)

\* f"{n:02d}"
format_02d(n) == IF n < 10 THEN <<"0">> \o str(n) ELSE str(n)

\* the loops of to_file_size and to_speed: divide by 1024.0 until below it or
\* at the last unit
RECURSIVE with_unit(_, _, _)
with_unit(x, units, i) ==
    IF x.num < 1024 * x.den \/ i = Len(units)
    THEN format_1f(x) \o <<" ">> \o units[i]
    ELSE with_unit([num |-> x.num, den |-> x.den * 1024], units, i + 1)

to_percentage(current, total) ==
    IF total > 0
    THEN format_1f([num |-> current * 100, den |-> total]) \o <<"%">>
    ELSE <<>>

\* size: [known, bytes], known = FALSE standing for None
to_file_size(size) ==
    IF ~size.known \/ size.bytes < 0 THEN <<"-", "-">>
    ELSE with_unit([num |-> size.bytes, den |-> 1],
                   << <<"B">>, <<"K", "B">>, <<"M", "B">>, <<"G", "B">>, <<"T", "B">> >>, 1)

to_speed(bps) ==
    IF bps.num <= 0 THEN <<"-", "-", "/", "s">>
    ELSE with_unit(bps, << <<"B", "/", "s">>, <<"K", "B", "/", "s">>,
                           <<"M", "B", "/", "s">>, <<"G", "B", "/", "s">> >>, 1)

\* sec: [known, num, den], known = FALSE standing for None
seconds_to_hms(sec) ==
    IF ~sec.known \/ sec.num < 0 THEN <<"-", "-", ":", "-", "-", ":", "-", "-">>
    ELSE LET s == sec.num \div sec.den
         IN  format_02d(s \div 3600) \o <<":">> \o format_02d((s % 3600) \div 60)
             \o <<":">> \o format_02d(s % 60)

\* int() takes the text: an optional minus sign and decimal digits
is_int_literal(text) ==
    LET digits == IF text # <<>> /\ Head(text) = "-" THEN Tail(text) ELSE text
    IN  digits # <<>> /\ \A i \in 1..Len(digits) : isdigit(digits[i]) /\ ~int_raises(digits)

\* int(res.headers.get("Content-Length", 0) or 0), for a header int() takes
content_length(header) ==
    IF ~Truthy(header) THEN 0
    ELSE IF Head(header) = "-" THEN 0 - int(Tail(header))
    ELSE int(header)

\* max(1e-6, time.time() - start_ts)
elapsed_since(seconds) ==
    IF seconds = 0 THEN [num |-> 1, den |-> 1000000] ELSE [num |-> seconds, den |-> 1]

NoEta == [known |-> FALSE, num |-> 0, den |-> 1]

\* `eta = None`, then `if size_total > 0 and speed > 0: eta = ...`
eta_of(size_total, size_received, speed) ==
    IF size_total > 0 /\ speed.num > 0
    THEN [known |-> TRUE, num |-> (size_total - size_received) * speed.den,
          den |-> speed.num]
    ELSE NoEta

\* the fields of progress_str, left to right
progress_str(size_total, size_received, speed, eta) ==
    [received   |-> to_file_size([known |-> TRUE, bytes |-> size_received]),
     total      |-> to_file_size([known |-> TRUE, bytes |-> size_total]),
     percentage |-> to_percentage(size_received, size_total),
     speed      |-> to_speed(speed),
     eta        |-> seconds_to_hms(eta)]

\* cached_progress_str = ""
NoLine == [received |-> <<>>, total |-> <<>>, percentage |-> <<>>, speed |-> <<>>,
           eta |-> <<>>]

\* --- inputs ---

\* passes of the read loop that return a chunk
MaxChunks == 3

\* the Content-Length header: None when the response has none
ContentLengths ==
    {None, <<>>, <<"0">>, <<"3">>, <<"2", "0", "4", "8">>, <<"-", "1">>, <<"x">>}

\* len(chunk) of a read, and the seconds a read takes
ChunkSizes == {1, 2}

ReadSeconds == {0, 2, 61}

ProgressInit ==
    /\ Idle
    /\ fcall \in [fn : {"download_file"}, header : ContentLengths, at : {"connect"},
                  size_total : {0}, size_received : {0}, seconds : {0}, chunks : {0},
                  eta : {NoEta}, progress_str : {NoLine},
                  cached_progress_str : {NoLine}, prints : {0}, ret : {FALSE}]

\* urlopen, open and the Content-Length line
download_file_connect ==
    /\ fcall.fn = "download_file" /\ fcall.at = "connect"
    /\ \E connected \in BOOLEAN :
          IF connected /\ (~Truthy(fcall.header) \/ is_int_literal(fcall.header))
          THEN fcall' = [fcall EXCEPT !.at = "read",
                                      !.size_total = content_length(fcall.header)]
          ELSE fcall' = [fcall EXCEPT !.at = "done", !.ret = FALSE]
    /\ UNCHANGED program_vars

\* one pass of the read loop: a chunk with its progress line, the end of the
\* body, or an error
download_file_read ==
    /\ fcall.fn = "download_file" /\ fcall.at = "read"
    /\ \/ /\ fcall.chunks < MaxChunks
          /\ \E n \in ChunkSizes, dt \in ReadSeconds :
                LET size_received == fcall.size_received + n
                    elapsed == elapsed_since(fcall.seconds + dt)
                    speed == [num |-> size_received * elapsed.den, den |-> elapsed.num]
                    eta == eta_of(fcall.size_total, size_received, speed)
                    line == progress_str(fcall.size_total, size_received, speed, eta)
                IN  fcall' = [fcall EXCEPT
                                !.size_received = size_received,
                                !.seconds = @ + dt,
                                !.chunks = @ + 1,
                                !.eta = eta,
                                !.progress_str = line,
                                !.prints = IF line # fcall.cached_progress_str
                                           THEN @ + 1 ELSE @,
                                !.cached_progress_str = line]
       \/ \E read_ok \in BOOLEAN :
             fcall' = [fcall EXCEPT !.at = "done", !.ret = read_ok]
    /\ UNCHANGED program_vars

ProgressNext == download_file_connect \/ download_file_read

ProgressSpec == ProgressInit /\ [][ProgressNext]_vars

\* --- properties of the progress line ---

\* a progress line has been made
HasLine == fcall.fn = "download_file" /\ fcall.chunks >= 1

\* C19: in every progress line, a total size that is unknown because the
\* response has no Content-Length is rendered as -- and an unknown ETA as
\* --:--:--; the ETA is a computed value only when the total size is known
\* and the throughput is positive.
C19_Placeholders ==
    HasLine =>
        /\ fcall.header = None => fcall.progress_str.total = <<"-", "-">>
        /\ ~fcall.eta.known =>
              fcall.progress_str.eta = <<"-", "-", ":", "-", "-", ":", "-", "-">>
        /\ fcall.progress_str.eta # <<"-", "-", ":", "-", "-", ":", "-", "-">> =>
              /\ fcall.header # None /\ fcall.size_total > 0
              /\ fcall.size_received > 0

====
